---------------------------- MODULE Spec2Model ----------------------------
(***************************************************************************)
(* TextShare (src/index.jsx): the text <-> token codec, the hash-driven    *)
(* Create/View router and the bounded history kept in localStorage.        *)
(*                                                                         *)
(* A JavaScript string is the sequence of its UTF-16 code units (numbers   *)
(* 0..65535); a byte string ("binary string") is a sequence of code units  *)
(* 0..255.  A JavaScript value that is a string or null is a record        *)
(* [isNull, str].  An operation that may throw returns [ok, val].          *)
(***************************************************************************)
EXTENDS Integers, Sequences, FiniteSets, TLC

\* ------------------------------------------------------------------------
\* Bounds of the model
\* ------------------------------------------------------------------------

\* longest string handed to the codec on its own
MaxLen == 3
\* handleGenerate calls made in one session
MaxGen == 2
\* hashchange notifications queued and not yet delivered
MaxPending == 1

\* ------------------------------------------------------------------------
\* JavaScript values
\* ------------------------------------------------------------------------

Null == [isNull |-> TRUE, str |-> <<>>]
Str(s) == [isNull |-> FALSE, str |-> s]
Ok(v) == [ok |-> TRUE, val |-> v]
Throw == [ok |-> FALSE, val |-> <<>>]

\* truthiness of a string-or-null value: null and '' are falsy
Truthy(v) == ~v.isNull /\ v.str # <<>>

\* `${v}` : null is rendered as the four characters n,u,l,l
TemplateString(v) == IF v.isNull THEN <<110, 117, 108, 108>> ELSE v.str

\* ------------------------------------------------------------------------
\* UTF-16 / UTF-8
\* ------------------------------------------------------------------------

IsHighSurrogate(c) == c >= 55296 /\ c <= 56319
IsLowSurrogate(c) == c >= 56320 /\ c <= 57343

\* a string without unpaired surrogates
RECURSIVE WellFormed(_)
WellFormed(s) ==
  IF s = <<>> THEN TRUE
  ELSE IF IsHighSurrogate(Head(s))
       THEN Len(s) >= 2 /\ IsLowSurrogate(s[2]) /\ WellFormed(Tail(Tail(s)))
       ELSE ~IsLowSurrogate(Head(s)) /\ WellFormed(Tail(s))

\* the code point of a surrogate pair
PairCodePoint(hi, lo) == 65536 + (hi - 55296) * 1024 + (lo - 56320)

\* the UTF-8 octets of a code point
Utf8Octets(cp) ==
  IF cp < 128 THEN <<cp>>
  ELSE IF cp < 2048 THEN <<192 + (cp \div 64), 128 + (cp % 64)>>
  ELSE IF cp < 65536
       THEN <<224 + (cp \div 4096), 128 + ((cp \div 64) % 64), 128 + (cp % 64)>>
  ELSE <<240 + (cp \div 262144), 128 + ((cp \div 4096) % 64),
         128 + ((cp \div 64) % 64), 128 + (cp % 64)>>

\* the UTF-16 code units of a code point
Utf16Units(cp) ==
  IF cp < 65536 THEN <<cp>>
  ELSE <<55296 + ((cp - 65536) \div 1024), 56320 + ((cp - 65536) % 1024)>>

\* ------------------------------------------------------------------------
\* encodeURIComponent / decodeURIComponent
\* ------------------------------------------------------------------------

IsUpper(c) == c >= 65 /\ c <= 90
IsLower(c) == c >= 97 /\ c <= 122
IsDigit(c) == c >= 48 /\ c <= 57

\* A-Z a-z 0-9 - _ . ! ~ * ' ( )  are left as they are
Unreserved(c) ==
  IsUpper(c) \/ IsLower(c) \/ IsDigit(c) \/ c \in {45, 95, 46, 33, 126, 42, 39, 40, 41}

UpperHexDigit(n) == IF n < 10 THEN 48 + n ELSE 55 + n
LowerHexDigit(n) == IF n < 10 THEN 48 + n ELSE 87 + n

\* "%XX" of one octet, upper-case digits
PercentEscape(b) == <<37, UpperHexDigit(b \div 16), UpperHexDigit(b % 16)>>

RECURSIVE EscapeOctets(_)
EscapeOctets(bs) ==
  IF bs = <<>> THEN <<>> ELSE PercentEscape(Head(bs)) \o EscapeOctets(Tail(bs))

\* encodeURIComponent(s): throws URIError on an unpaired surrogate
RECURSIVE encodeURIComponent(_)
encodeURIComponent(s) ==
  IF s = <<>> THEN Ok(<<>>)
  ELSE LET c == Head(s) IN
    IF Unreserved(c)
    THEN LET r == encodeURIComponent(Tail(s)) IN
         IF r.ok THEN Ok(<<c>> \o r.val) ELSE Throw
    ELSE IF IsLowSurrogate(c) THEN Throw
    ELSE IF IsHighSurrogate(c)
         THEN IF Len(s) >= 2 /\ IsLowSurrogate(s[2])
              THEN LET r == encodeURIComponent(Tail(Tail(s))) IN
                   IF r.ok
                   THEN Ok(EscapeOctets(Utf8Octets(PairCodePoint(c, s[2]))) \o r.val)
                   ELSE Throw
              ELSE Throw
    ELSE LET r == encodeURIComponent(Tail(s)) IN
         IF r.ok THEN Ok(EscapeOctets(Utf8Octets(c)) \o r.val) ELSE Throw

IsUpperHex(c) == IsDigit(c) \/ (c >= 65 /\ c <= 70)
IsHex(c) == IsUpperHex(c) \/ (c >= 97 /\ c <= 102)
HexValue(c) == IF IsDigit(c) THEN c - 48 ELSE IF c >= 97 THEN c - 87 ELSE c - 55

\* .replace(/%([0-9A-F]{2})/g, (m, p1) => String.fromCharCode('0x' + p1))
RECURSIVE toSolidBytes(_)
toSolidBytes(s) ==
  IF s = <<>> THEN <<>>
  ELSE IF Head(s) = 37 /\ Len(s) >= 3 /\ IsUpperHex(s[2]) /\ IsUpperHex(s[3])
       THEN <<16 * HexValue(s[2]) + HexValue(s[3])>> \o toSolidBytes(SubSeq(s, 4, Len(s)))
       ELSE <<Head(s)>> \o toSolidBytes(Tail(s))

\* number of leading 1 bits of an octet
LeadingOnes(b) ==
  IF b < 128 THEN 0 ELSE IF b < 192 THEN 1 ELSE IF b < 224 THEN 2
  ELSE IF b < 240 THEN 3 ELSE IF b < 248 THEN 4 ELSE 5

IsContinuation(b) == b >= 128 /\ b < 192

\* the code point n octets encode (n >= 2), without validation
RECURSIVE ContinuationBits(_)
ContinuationBits(bs) ==
  IF bs = <<>> THEN 0
  ELSE (Head(bs) % 64) * (IF Len(bs) = 1 THEN 1 ELSE IF Len(bs) = 2 THEN 64 ELSE 4096)
       + ContinuationBits(Tail(bs))

OctetsCodePoint(bs) ==
  LET n == Len(bs)
      lead == IF n = 2 THEN (bs[1] % 32) * 64
              ELSE IF n = 3 THEN (bs[1] % 16) * 4096
              ELSE (bs[1] % 8) * 262144
  IN lead + ContinuationBits(Tail(bs))

\* "Octets contain a valid UTF-8 encoding of a Unicode code point"
ValidUtf8(bs) ==
  LET n == Len(bs) cp == OctetsCodePoint(bs) IN
  /\ \A i \in 2..n : IsContinuation(bs[i])
  /\ IF n = 2 THEN cp >= 128
     ELSE IF n = 3 THEN cp >= 2048 /\ ~(cp >= 55296 /\ cp <= 57343)
     ELSE cp >= 65536 /\ cp <= 1114111

\* the octets of the n escapes "%XX" at the head of s, or Throw
RECURSIVE ReadEscapes(_, _)
ReadEscapes(s, n) ==
  IF n = 0 THEN Ok(<<>>)
  ELSE IF Len(s) < 3 \/ s[1] # 37 \/ ~IsHex(s[2]) \/ ~IsHex(s[3]) THEN Throw
  ELSE LET r == ReadEscapes(SubSeq(s, 4, Len(s)), n - 1) IN
       IF r.ok THEN Ok(<<16 * HexValue(s[2]) + HexValue(s[3])>> \o r.val) ELSE Throw

\* decodeURIComponent(s): throws URIError on a malformed escape or on octets
\* that are not the UTF-8 encoding of a code point
RECURSIVE decodeURIComponent(_)
decodeURIComponent(s) ==
  IF s = <<>> THEN Ok(<<>>)
  ELSE IF Head(s) # 37
       THEN LET r == decodeURIComponent(Tail(s)) IN
            IF r.ok THEN Ok(<<Head(s)>> \o r.val) ELSE Throw
  ELSE LET first == ReadEscapes(s, 1) IN
    IF ~first.ok THEN Throw
    ELSE LET b == first.val[1]
             n == LeadingOnes(b)
         IN IF n = 0
            THEN LET r == decodeURIComponent(SubSeq(s, 4, Len(s))) IN
                 IF r.ok THEN Ok(<<b>> \o r.val) ELSE Throw
            ELSE IF n = 1 \/ n > 4 THEN Throw
            ELSE LET octs == ReadEscapes(s, n) IN
                 IF ~octs.ok THEN Throw
                 ELSE IF ~ValidUtf8(octs.val) THEN Throw
                 ELSE LET r == decodeURIComponent(SubSeq(s, 3 * n + 1, Len(s))) IN
                      IF r.ok
                      THEN Ok(Utf16Units(OctetsCodePoint(octs.val)) \o r.val)
                      ELSE Throw

\* ------------------------------------------------------------------------
\* btoa / atob
\* ------------------------------------------------------------------------

\* the character of a base64 digit 0..63: A-Z a-z 0-9 + /
B64Char(d) ==
  IF d < 26 THEN 65 + d ELSE IF d < 52 THEN 71 + d ELSE IF d < 62 THEN d - 4
  ELSE IF d = 62 THEN 43 ELSE 47

IsB64Char(c) == IsUpper(c) \/ IsLower(c) \/ IsDigit(c) \/ c = 43 \/ c = 47

\* the base64 digit of a character of the alphabet
B64Digit(c) ==
  IF IsUpper(c) THEN c - 65 ELSE IF IsLower(c) THEN c - 71 ELSE IF IsDigit(c) THEN c + 4
  ELSE IF c = 43 THEN 62 ELSE 63

\* btoa(s): throws InvalidCharacterError when a code unit is above 255
RECURSIVE Base64Groups(_)
Base64Groups(bs) ==
  IF bs = <<>> THEN <<>>
  ELSE IF Len(bs) = 1
       THEN <<B64Char(bs[1] \div 4), B64Char((bs[1] % 4) * 16), 61, 61>>
  ELSE IF Len(bs) = 2
       THEN <<B64Char(bs[1] \div 4), B64Char((bs[1] % 4) * 16 + (bs[2] \div 16)),
              B64Char((bs[2] % 16) * 4), 61>>
  ELSE <<B64Char(bs[1] \div 4), B64Char((bs[1] % 4) * 16 + (bs[2] \div 16)),
         B64Char((bs[2] % 16) * 4 + (bs[3] \div 64)), B64Char(bs[3] % 64)>>
       \o Base64Groups(SubSeq(bs, 4, Len(bs)))

btoa(s) ==
  IF \E i \in 1..Len(s) : s[i] > 255 THEN Throw ELSE Ok(Base64Groups(s))

IsAsciiWhitespace(c) == c \in {9, 10, 12, 13, 32}

RECURSIVE StripWhitespace(_)
StripWhitespace(s) ==
  IF s = <<>> THEN <<>>
  ELSE IF IsAsciiWhitespace(Head(s)) THEN StripWhitespace(Tail(s))
  ELSE <<Head(s)>> \o StripWhitespace(Tail(s))

\* a length that is a multiple of 4 loses one or two trailing '='
StripPadding(s) ==
  IF Len(s) % 4 = 0 /\ Len(s) > 0 /\ s[Len(s)] = 61
  THEN IF s[Len(s) - 1] = 61 THEN SubSeq(s, 1, Len(s) - 2) ELSE SubSeq(s, 1, Len(s) - 1)
  ELSE s

\* the octets of base64 digits; the 4 or 2 bits left over at the end are dropped
RECURSIVE DigitsToOctets(_)
DigitsToOctets(s) ==
  IF Len(s) < 2 THEN <<>>
  ELSE IF Len(s) = 2
       THEN <<B64Digit(s[1]) * 4 + (B64Digit(s[2]) \div 16)>>
  ELSE IF Len(s) = 3
       THEN <<B64Digit(s[1]) * 4 + (B64Digit(s[2]) \div 16),
              (B64Digit(s[2]) % 16) * 16 + (B64Digit(s[3]) \div 4)>>
  ELSE <<B64Digit(s[1]) * 4 + (B64Digit(s[2]) \div 16),
         (B64Digit(s[2]) % 16) * 16 + (B64Digit(s[3]) \div 4),
         (B64Digit(s[3]) % 4) * 64 + B64Digit(s[4])>>
       \o DigitsToOctets(SubSeq(s, 5, Len(s)))

\* atob(s): forgiving-base64 decode; throws InvalidCharacterError
atob(s) ==
  LET data == StripPadding(StripWhitespace(s)) IN
  IF Len(data) % 4 = 1 THEN Throw
  ELSE IF \E i \in 1..Len(data) : ~IsB64Char(data[i]) THEN Throw
  ELSE Ok(DigitsToOctets(data))

\* ------------------------------------------------------------------------
\* encodeText / decodeText
\* ------------------------------------------------------------------------

\* encodeText without the second replace: '/' stays in the token
ToUrlSafePlusOnly(s) == [i \in 1..Len(s) |-> IF s[i] = 43 THEN 45 ELSE s[i]]

\* .replace(/\+/g, '-').replace(/\//g, '_')
ToUrlSafe(s) ==
  [i \in 1..Len(s) |-> IF s[i] = 43 THEN 45 ELSE IF s[i] = 47 THEN 95 ELSE s[i]]

\* .replace(/=+$/, '')
RECURSIVE StripTrailingEquals(_)
StripTrailingEquals(s) ==
  IF s # <<>> /\ s[Len(s)] = 61 THEN StripTrailingEquals(SubSeq(s, 1, Len(s) - 1)) ELSE s

\* encodeText(str): the token, or null when anything in the try block throws
encodeText(str) ==
  LET uri == encodeURIComponent(str) IN
  IF ~uri.ok THEN Null
  ELSE LET b64 == btoa(toSolidBytes(uri.val)) IN
       IF ~b64.ok THEN Null
       ELSE Str(StripTrailingEquals(ToUrlSafe(b64.val)))

\* decodeText without the second replace: '_' is left in the base64 text
FromUrlSafeDashOnly(s) == [i \in 1..Len(s) |-> IF s[i] = 45 THEN 43 ELSE s[i]]

\* .replace(/-/g, '+').replace(/_/g, '/')
FromUrlSafe(s) ==
  [i \in 1..Len(s) |-> IF s[i] = 45 THEN 43 ELSE IF s[i] = 95 THEN 47 ELSE s[i]]

\* '='.repeat((4 - base64.length % 4) % 4)
Padding(base64) == [i \in 1..((4 - (Len(base64) % 4)) % 4) |-> 61]

\* c => '%' + ('00' + c.charCodeAt(0).toString(16)).slice(-2), joined
RECURSIVE PercentEncodeBytes(_)
PercentEncodeBytes(bs) ==
  IF bs = <<>> THEN <<>>
  ELSE <<37, LowerHexDigit(Head(bs) \div 16), LowerHexDigit(Head(bs) % 16)>>
       \o PercentEncodeBytes(Tail(bs))

\* decodeText(str): the text, or null when anything in the try block throws
decodeText(str) ==
  LET base64 == FromUrlSafe(str)
      bin == atob(base64 \o Padding(base64))
  IN IF ~bin.ok THEN Null
     ELSE LET txt == decodeURIComponent(PercentEncodeBytes(bin.val)) IN
          IF ~txt.ok THEN Null ELSE Str(txt.val)

\* ------------------------------------------------------------------------
\* The page and its environment
\* ------------------------------------------------------------------------

VARIABLES
  phase,          \* "start": rendered, effects not yet run; "running"; "crashed"
  text,           \* useState('')
  mode,           \* useState('create'): "create" | "view"
  generatedLink,  \* useState('')
  toast,          \* useState(null)
  history,        \* useState([])
  showQR,         \* useState(false)
  hash,           \* window.location.hash.substring(1)
  pending,        \* hashchange events queued for the listener
  storage,        \* localStorage item 'textshare_history'
  now,            \* what the next Date.now() returns
  uncaught,       \* the error that escaped the handler that ran last
  cpc,            \* codec harness: "idle" | "input" | "encoded" | "decoded" | "raw"
  input,          \* codec harness: the string under test
  token,          \* codec harness: encodeText(input)
  output          \* codec harness: the result of decodeText

appVars == <<phase, text, mode, generatedLink, toast, history, showQR, hash,
             pending, storage, now, uncaught>>
codecVars == <<cpc, input, token, output>>
vars == <<appVars, codecVars>>

\* window.location.origin and window.location.pathname: "http://h" and "/"
Origin == <<104, 116, 116, 112, 58, 47, 47, 104>>
Pathname == <<47>>

\* `${window.location.origin}${window.location.pathname}#${encoded}`
LinkOf(encoded) == Origin \o Pathname \o <<35>> \o TemplateString(encoded)

\* the fragment of a URL: what follows its first '#'
RECURSIVE FragmentOf(_)
FragmentOf(url) ==
  IF url = <<>> THEN <<>>
  ELSE IF Head(url) = 35 THEN Tail(url) ELSE FragmentOf(Tail(url))

NoToast == [message |-> "", type |-> "none"]
InvalidLinkToast == [message |-> "Invalid or corrupted link", type |-> "error"]
EnterTextToast == [message |-> "Please enter some text first!", type |-> "error"]
GeneratedToast == [message |-> "Link generated successfully!", type |-> "success"]

\* the localStorage item: missing, a string JSON.parse rejects, or the
\* JSON.stringify of a list
Absent == [kind |-> "absent", list |-> <<>>]
Malformed == [kind |-> "malformed", list |-> <<>>]
JSONstringify(list) == [kind |-> "json", list |-> list]
JSONparse(item) == IF item.kind = "json" THEN Ok(item.list) ELSE Throw

\* white space and line terminators String.prototype.trim removes
IsTrimmed(c) ==
  \/ c \in {9, 10, 11, 12, 13, 32, 160, 5760, 8232, 8233, 8239, 8287, 12288, 65279}
  \/ (c >= 8192 /\ c <= 8202)

\* !text.trim()
Blank(t) == \A i \in 1..Len(t) : IsTrimmed(t[i])

\* list.slice(0, n)
Slice(list, n) == SubSeq(list, 1, IF Len(list) < n THEN Len(list) ELSE n)

\* texts the user types or pastes into the textarea: '', ' ', 'C' + U+4E16
\* (its token holds '-'), an unpaired high surrogate
InputTexts == {<<>>, <<32>>, <<67, 19990>>, <<55356>>}

\* an entry an earlier session saved for the text 'A'
SavedEntry(i) ==
  [id |-> 0 - i, preview |-> <<65>>, date |-> 0 - 1, link |-> LinkOf(encodeText(<<65>>))]
SavedList(n) == [i \in 1..n |-> SavedEntry(i)]

\* what localStorage holds when the page is opened
SavedItems == {Absent, Malformed, JSONstringify(SavedList(4)), JSONstringify(SavedList(6))}

\* fragments of URLs the user opens that this session did not make: none,
\* the token of 'A', and '!!'. A URL's fragment never holds white space: the
\* browser percent-encodes it
ForeignFragments == {<<>>, <<81, 81>>, <<33, 33>>}

\* fragments of the links the page shows
ShownFragments ==
  {FragmentOf(generatedLink)} \cup {FragmentOf(history[i].link) : i \in 1..Len(history)}

AppInit ==
  /\ phase = "start"
  /\ text = <<>>
  /\ mode = "create"
  /\ generatedLink = <<>>
  /\ toast = NoToast
  /\ history = <<>>
  /\ showQR = FALSE
  /\ hash \in ForeignFragments
  /\ pending = 0
  /\ storage \in SavedItems
  /\ now = 0
  /\ uncaught = "none"

CodecIdle ==
  /\ cpc = "idle"
  /\ input = <<>>
  /\ token = Null
  /\ output = Null

Init == AppInit /\ CodecIdle

\* ------------------------------------------------------------------------
\* Link Router
\* ------------------------------------------------------------------------

\* the valid branch without its setText(decoded)
RouteValidModeOnly(decoded, queued) ==
  /\ mode' = "view"
  /\ pending' = queued
  /\ UNCHANGED <<text, toast, hash>>

\* if (decoded) { setText(decoded); setMode('view') }
RouteValid(decoded, queued) ==
  /\ text' = decoded.str
  /\ mode' = "view"
  /\ pending' = queued
  /\ UNCHANGED <<toast, hash>>

\* else { showToast(...); window.location.hash = ''; setMode('create') }
\* assigning a different fragment queues a hashchange event
RouteInvalid(queued) ==
  /\ toast' = InvalidLinkToast
  /\ hash' = <<>>
  /\ mode' = "create"
  /\ pending' = queued + 1
  /\ UNCHANGED text

\* else { setMode('create'); setText('') }
RouteEmpty(queued) ==
  /\ mode' = "create"
  /\ text' = <<>>
  /\ pending' = queued
  /\ UNCHANGED <<toast, hash>>

\* handleHashChange, with `queued` events left in the queue when it is called
handleHashChange(queued) ==
  IF hash # <<>>
  THEN LET decoded == decodeText(hash) IN
       IF Truthy(decoded) THEN RouteValid(decoded, queued) ELSE RouteInvalid(queued)
  ELSE RouteEmpty(queued)

\* a router whose valid branch adds the decoded text to the text held
RouterOutcomeAppends(h, t) ==
  IF h # <<>>
  THEN LET decoded == decodeText(h) IN
       IF Truthy(decoded)
       THEN [mode |-> "view", text |-> t \o decoded.str, hash |-> h]
       ELSE [mode |-> "create", text |-> t, hash |-> <<>>]
  ELSE [mode |-> "create", text |-> <<>>, hash |-> <<>>]

\* what handleHashChange leaves when it reads the fragment h while the text
\* is t: the mode, the text and the fragment
RouterOutcome(h, t) ==
  IF h # <<>>
  THEN LET decoded == decodeText(h) IN
       IF Truthy(decoded)
       THEN [mode |-> "view", text |-> decoded.str, hash |-> h]
       ELSE [mode |-> "create", text |-> t, hash |-> <<>>]
  ELSE [mode |-> "create", text |-> <<>>, hash |-> <<>>]

\* ------------------------------------------------------------------------
\* Startup
\* ------------------------------------------------------------------------

\* const savedHistory = localStorage.getItem(...);
\* if (savedHistory) setHistory(JSON.parse(savedHistory));
LoadHistory ==
  IF storage.kind = "absent" THEN Ok(history) ELSE JSONparse(storage)

\* the initialising effect: load the history, route the fragment the page was
\* opened with, register the hashchange listener. An error thrown in the
\* effect ends it there and React unmounts the tree
Mount ==
  /\ phase = "start"
  /\ LET loaded == LoadHistory IN
     IF loaded.ok
     THEN /\ history' = loaded.val
          /\ handleHashChange(pending)
          /\ phase' = "running"
          /\ uncaught' = "none"
          /\ UNCHANGED <<generatedLink, showQR, storage, now>>
     ELSE /\ phase' = "crashed"
          /\ uncaught' = "SyntaxError"
          /\ UNCHANGED <<text, mode, generatedLink, toast, history, showQR, hash,
                         pending, storage, now>>
  /\ UNCHANGED codecVars

\* the hashchange listener takes one queued event
HashChange ==
  /\ phase = "running"
  /\ pending > 0
  /\ handleHashChange(pending - 1)
  /\ uncaught' = "none"
  /\ UNCHANGED <<phase, generatedLink, history, showQR, storage, now>>
  /\ UNCHANGED codecVars

\* the user opens, in this tab, a URL of the page with another fragment; the
\* browser queues a hashchange event when a listener is registered
Navigate ==
  /\ phase \in {"running", "crashed"}
  /\ \E f \in (ForeignFragments \cup ShownFragments) \ {hash} : hash' = f
  /\ IF phase = "running"
     THEN pending < MaxPending /\ pending' = pending + 1
     ELSE pending' = pending
  /\ UNCHANGED <<phase, text, mode, generatedLink, toast, history, showQR, storage,
                 now, uncaught>>
  /\ UNCHANGED codecVars

\* the page is loaded again with the URL and the storage as they are
Reload ==
  /\ phase \in {"running", "crashed"}
  /\ phase' = "start"
  /\ text' = <<>>
  /\ mode' = "create"
  /\ generatedLink' = <<>>
  /\ toast' = NoToast
  /\ history' = <<>>
  /\ showQR' = FALSE
  /\ pending' = 0
  /\ uncaught' = "none"
  /\ UNCHANGED <<hash, storage, now>>
  /\ UNCHANGED codecVars

\* ------------------------------------------------------------------------
\* Editor
\* ------------------------------------------------------------------------

\* onChange without its mode guard: (e) => setText(e.target.value)
SetTextAnyMode ==
  /\ phase = "running"
  /\ \E t \in InputTexts \ {text} : text' = t
  /\ uncaught' = "none"
  /\ UNCHANGED <<phase, mode, generatedLink, toast, history, showQR, hash, pending,
                 storage, now>>
  /\ UNCHANGED codecVars

\* onChange={(e) => mode === 'create' && setText(e.target.value)}
SetText ==
  /\ phase = "running"
  /\ mode = "create"
  /\ \E t \in InputTexts \ {text} : text' = t
  /\ uncaught' = "none"
  /\ UNCHANGED <<phase, mode, generatedLink, toast, history, showQR, hash, pending,
                 storage, now>>
  /\ UNCHANGED codecVars

\* text.substring(0, 30) + (text.length > 30 ? '...' : '')
Preview(t) ==
  SubSeq(t, 1, IF Len(t) < 30 THEN Len(t) ELSE 30)
    \o (IF Len(t) > 30 THEN <<46, 46, 46>> ELSE <<>>)

\* new Date().toLocaleDateString(): the day the clock is in
LocaleDate(t) == t \div 86400000

NewHistoryItem(link) ==
  [id |-> now, preview |-> Preview(text), date |-> LocaleDate(now), link |-> link]

\* the new item put last: [...history, newHistoryItem].slice(0, 5)
UpdatedHistoryItemLast(item, list) == Slice(list \o <<item>>, 5)

\* [newHistoryItem, ...history].slice(0, 5)
UpdatedHistory(item, list) == Slice(<<item>> \o list, 5)

\* the write storing the list as it was before the append
PersistStale(updated) ==
  /\ storage' = JSONstringify(history)
  /\ toast' = GeneratedToast
  /\ uncaught' = "none"

\* localStorage.setItem(...) stores the item, or throws (quota, storage
\* disabled) and ends the handler before its last line
PersistAndNotify(updated) ==
  \/ /\ storage' = JSONstringify(updated)
     /\ toast' = GeneratedToast
     /\ uncaught' = "none"
  \/ /\ UNCHANGED <<storage, toast>>
     /\ uncaught' = "QuotaExceededError"

\* handleGenerate without its empty-input guard
handleGenerateUnguarded ==
  LET encoded == encodeText(text)
      link == LinkOf(encoded)
      updatedHistory == UpdatedHistory(NewHistoryItem(link), history)
  IN /\ generatedLink' = link
     /\ history' = updatedHistory
     /\ now' = now + 1
     /\ PersistAndNotify(updatedHistory)

handleGenerate ==
  IF Blank(text)
  THEN /\ toast' = EnterTextToast
       /\ uncaught' = "none"
       /\ UNCHANGED <<generatedLink, history, storage, now>>
  ELSE LET encoded == encodeText(text)
           link == LinkOf(encoded)
           updatedHistory == UpdatedHistory(NewHistoryItem(link), history)
       IN /\ generatedLink' = link
          /\ history' = updatedHistory
          /\ now' = now + 1
          /\ PersistAndNotify(updatedHistory)

\* the Generate control of Create mode calls handleGenerate
Generate ==
  /\ phase = "running"
  /\ mode = "create"
  /\ Blank(text) \/ now < MaxGen
  /\ handleGenerate
  /\ UNCHANGED <<phase, text, mode, showQR, hash, pending>>
  /\ UNCHANGED codecVars

\* the Clear control: onClick={() => setText('')}, disabled={!text.trim()}
ClearText ==
  /\ phase = "running"
  /\ mode = "create"
  /\ ~Blank(text)
  /\ text' = <<>>
  /\ uncaught' = "none"
  /\ UNCHANGED <<phase, mode, generatedLink, toast, history, showQR, hash, pending,
                 storage, now>>
  /\ UNCHANGED codecVars

\* resetApp without its setGeneratedLink('') and setShowQR(false)
resetAppKeepsLink ==
  /\ phase = "running"
  /\ mode = "view"
  /\ text' = <<>>
  /\ mode' = "create"
  /\ hash' = <<>>
  /\ uncaught' = "none"
  /\ UNCHANGED <<phase, generatedLink, showQR, toast, history, pending, storage, now>>
  /\ UNCHANGED codecVars

\* resetApp that also forgets the history and removes the stored list
resetAppForgetsHistory ==
  /\ phase = "running"
  /\ mode = "view"
  /\ text' = <<>>
  /\ generatedLink' = <<>>
  /\ mode' = "create"
  /\ showQR' = FALSE
  /\ hash' = <<>>
  /\ history' = <<>>
  /\ storage' = Absent
  /\ uncaught' = "none"
  /\ UNCHANGED <<phase, toast, pending, now>>
  /\ UNCHANGED codecVars

\* "Create New", shown in View mode; pushState fires no hashchange event
resetApp ==
  /\ phase = "running"
  /\ mode = "view"
  /\ text' = <<>>
  /\ generatedLink' = <<>>
  /\ mode' = "create"
  /\ showQR' = FALSE
  /\ hash' = <<>>
  /\ uncaught' = "none"
  /\ UNCHANGED <<phase, toast, history, pending, storage, now>>
  /\ UNCHANGED codecVars

\* the QR control of the result card: onClick={() => setShowQR(!showQR)}
ToggleQR ==
  /\ phase = "running"
  /\ mode = "create"
  /\ generatedLink # <<>>
  /\ showQR' = ~showQR
  /\ uncaught' = "none"
  /\ UNCHANGED <<phase, text, mode, generatedLink, toast, history, hash, pending,
                 storage, now>>
  /\ UNCHANGED codecVars

\* the Toast's timer: onClose={() => setToast(null)}
CloseToast ==
  /\ phase = "running"
  /\ toast # NoToast
  /\ toast' = NoToast
  /\ UNCHANGED <<phase, text, mode, generatedLink, history, showQR, hash, pending,
                 storage, now, uncaught>>
  /\ UNCHANGED codecVars

Next ==
  \/ Mount
  \/ HashChange
  \/ Navigate
  \/ Reload
  \/ SetText
  \/ Generate
  \/ ClearText
  \/ resetApp
  \/ ToggleQR
  \/ CloseToast

Spec == Init /\ [][Next]_vars

\* ------------------------------------------------------------------------
\* The codec on its own
\* ------------------------------------------------------------------------

\* code units of the strings under test: % + / = A, U+00FF (two octets, a '/'
\* in base64), U+4E16 (three octets), the surrogate pair of U+1F389
CodecUnits == {37, 43, 47, 61, 65, 255, 19990, 55356, 57225}

CodecInputs == UNION {[1..n -> CodecUnits] : n \in 0..MaxLen}

CodecInit ==
  /\ phase = "start"
  /\ text = <<>>
  /\ mode = "create"
  /\ generatedLink = <<>>
  /\ toast = NoToast
  /\ history = <<>>
  /\ showQR = FALSE
  /\ hash = <<>>
  /\ pending = 0
  /\ storage = Absent
  /\ now = 0
  /\ uncaught = "none"
  /\ cpc = "input"
  /\ input \in CodecInputs
  /\ token = Null
  /\ output = Null

\* const encoded = encodeText(text)
CodecEncode ==
  /\ cpc = "input"
  /\ token' = encodeText(input)
  /\ cpc' = "encoded"
  /\ UNCHANGED <<input, output>>
  /\ UNCHANGED appVars

\* const decoded = decodeText(hash), on a token encodeText returned
CodecDecode ==
  /\ cpc = "encoded"
  /\ ~token.isNull
  /\ output' = decodeText(token.str)
  /\ cpc' = "decoded"
  /\ UNCHANGED <<input, token>>
  /\ UNCHANGED appVars

\* const decoded = decodeText(hash), on any string
CodecDecodeRaw ==
  /\ cpc = "input"
  /\ output' = decodeText(input)
  /\ cpc' = "raw"
  /\ UNCHANGED <<input, token>>
  /\ UNCHANGED appVars

CodecNext == CodecEncode \/ CodecDecode \/ CodecDecodeRaw

CodecSpec == CodecInit /\ [][CodecNext]_vars

\* ------------------------------------------------------------------------
\* Properties
\* ------------------------------------------------------------------------

\* C1: for every well-formed string t, encodeText(t) is a token (not null)
\* and decodeText of that token is t
C1_RoundTrip ==
  /\ (cpc \in {"encoded", "decoded"} /\ WellFormed(input)) => ~token.isNull
  /\ (cpc = "decoded" /\ WellFormed(input)) => output = Str(input)

\* a multi-byte text with '/' and '=' in its base64 form went round
C1_Witness ==
  /\ cpc = "decoded"
  /\ input = <<65, 255>>
  /\ token = Str(<<81, 99, 79, 95>>)
  /\ output = Str(input)

\* a step in which handleHashChange runs: at startup, or for a queued event
RouterStep == HashChange \/ (Mount /\ phase' = "running")

\* a step in which handleGenerate gets past its empty-input guard
GenerateStep == Generate /\ ~Blank(text)

\* the fragment the router reads does not decode
DecodeFails == hash # <<>> /\ decodeText(hash).isNull

\* the fragment the router reads decodes
DecodeSucceeds == hash # <<>> /\ ~decodeText(hash).isNull

Min(a, b) == IF a < b THEN a ELSE b

\* C2: a link handleGenerate makes for a non-blank text t is origin + path +
\* '#' + token, it is the link of the new history entry, and when the router
\* reads that token as the fragment it ends in View with the text t. (The
\* texts of the model are shorter than 30 code units, so an entry's preview
\* is the text its link was made from.)
C2_EndToEnd ==
  [][/\ GenerateStep =>
          /\ generatedLink' = Origin \o Pathname \o <<35>> \o FragmentOf(generatedLink')
          /\ history'[1].link = generatedLink'
          /\ history'[1].preview = text
     /\ RouterStep =>
          \A i \in 1..Len(history') :
            (hash # <<>> /\ FragmentOf(history'[i].link) = hash)
              => (mode' = "view" /\ text' = history'[i].preview)]_vars

\* C3: when the router reads a non-empty fragment that does not decode, it
\* raises the error toast and leaves mode Create, the fragment empty and the
\* text empty
C3_RouterFailure ==
  [][(RouterStep /\ DecodeFails) =>
       /\ toast' = InvalidLinkToast
       /\ mode' = "create"
       /\ hash' = <<>>
       /\ text' = <<>>]_vars

\* C4: when the router reads a non-empty fragment that decodes, it leaves
\* mode View and the decoded string as the text, and raises no toast
C4_RouterSuccess ==
  [][(RouterStep /\ DecodeSucceeds) =>
       /\ mode' = "view"
       /\ text' = decodeText(hash).str
       /\ toast' = toast]_vars

\* the router has replaced an earlier text by the text of a generated link
C4_Witness ==
  /\ phase = "running"
  /\ pending = 0
  /\ mode = "view"
  /\ hash = <<81, 45, 83, 52, 108, 103>>
  /\ text = <<67, 19990>>
  /\ generatedLink # <<>>

\* C5: with the stored history missing or unparseable, startup raises
\* nothing, leaves the history empty and still routes the fragment
C5_LoadTolerant ==
  [][(Mount /\ storage.kind \in {"absent", "malformed"}) =>
       /\ phase' = "running"
       /\ uncaught' = "none"
       /\ history' = <<>>
       /\ (mode' = "view") <=> DecodeSucceeds]_vars

\* C6: the history never holds more than 5 entries
C6_Capacity == Len(history) <= 5

\* C7: a generate on the list h leaves the new entry followed by the first
\* min(4, |h|) entries of h in their order; with the ids growing, the list
\* stays most-recent-first, so the entry that leaves is the oldest
C7_Append ==
  [][GenerateStep =>
       /\ history'[1] = [id |-> now, preview |-> text, date |-> 0,
                         link |-> generatedLink']
       /\ history' = <<history'[1]>> \o SubSeq(history, 1, Min(4, Len(history)))
       /\ \A i \in 1..Len(history') : \A j \in 1..Len(history') :
            i < j => history'[i].id > history'[j].id]_vars

\* two appends to a list of four: the oldest saved entry has left
C7_Witness ==
  /\ phase = "running"
  /\ Len(history) = 5
  /\ history[1].id = 1
  /\ history[2].id = 0
  /\ history[5] = SavedEntry(3)

\* C8: a generate whose storage write fails raises nothing, still shows the
\* success toast, and leaves the new entry first in the list and the link set
C8_WriteFailureSwallowed ==
  [][GenerateStep =>
       /\ uncaught' = "none"
       /\ toast' = GeneratedToast
       /\ generatedLink' # <<>>
       /\ history'[1].link = generatedLink']_vars

\* C9: when encodeText returns null, handleGenerate sets no link, adds and
\* stores no entry, and shows an error instead of the success toast
C9_EncodeFailure ==
  [][(GenerateStep /\ encodeText(text).isNull) =>
       /\ generatedLink' = generatedLink
       /\ history' = history
       /\ storage' = storage
       /\ toast'.type = "error"]_vars

\* C10: once startup is over and no hashchange event is queued, mode is View
\* exactly when the fragment is non-empty and decodes
C10_ModeFollowsFragment ==
  (phase # "start" /\ pending = 0) => ((mode = "view") <=> DecodeSucceeds)

\* C11: resetApp leaves mode Create, the fragment empty, the text empty, the
\* generated link empty and the QR flag off, and queues no hashchange event;
\* a router run that then reads the empty fragment keeps all of that
C11_Reset ==
  [][/\ resetApp =>
          /\ mode' = "create"
          /\ hash' = <<>>
          /\ text' = <<>>
          /\ generatedLink' = <<>>
          /\ showQR' = FALSE
          /\ pending' = pending
     /\ (HashChange /\ hash = <<>>) =>
          /\ mode' = "create"
          /\ hash' = <<>>
          /\ text' = <<>>
          /\ generatedLink' = generatedLink
          /\ showQR' = showQR]_vars

\* a link was generated and opened, and the reset has cleared the link (the
\* success toast of the generate is still up)
C11_Witness ==
  /\ phase = "running"
  /\ toast = GeneratedToast
  /\ mode = "create"
  /\ hash = <<>>
  /\ text = <<>>
  /\ generatedLink = <<>>
  /\ showQR = FALSE
  /\ pending = 0
  /\ Len(history) > 0

\* C12: with an empty or white-space-only text handleGenerate stops at its
\* guard: link, history and stored history stay as they are, the clock is
\* not read, and the only effect is the error toast
C12_EmptyRejected ==
  [][(Generate /\ Blank(text)) =>
       /\ generatedLink' = generatedLink
       /\ history' = history
       /\ storage' = storage
       /\ now' = now
       /\ toast' = EnterTextToast]_vars

\* a generate on the text ' ' was rejected after an earlier one had succeeded
C12_Witness ==
  /\ phase = "running"
  /\ text = <<32>>
  /\ toast = EnterTextToast
  /\ generatedLink # <<>>
  /\ Len(history) > 0
  /\ storage = JSONstringify(history)

\* C13: decodeText returns null for every string that encodeText does not
\* produce. (A string d is returned for the input only if the input is a
\* token of some text; by C1 that text is d, so the input is encodeText(d).)
C13_DecodeRobust ==
  cpc = "raw" => (output.isNull \/ encodeText(output.str) = Str(input))

\* a character of the token alphabet A-Z a-z 0-9 - _
IsTokenChar(c) == IsUpper(c) \/ IsLower(c) \/ IsDigit(c) \/ c = 45 \/ c = 95

\* C14: a token encodeText returns holds only characters of A-Z a-z 0-9 - _
C14_TokenAlphabet ==
  (cpc \in {"encoded", "decoded"} /\ ~token.isNull) =>
    \A i \in 1..Len(token.str) : IsTokenChar(token.str[i])

\* a token whose base64 form has '+', '/' and '=' padding
C14_Witness ==
  /\ cpc = "encoded"
  /\ ~token.isNull
  /\ \E i \in 1..Len(token.str) : token.str[i] = 45
  /\ \E i \in 1..Len(token.str) : token.str[i] = 95
  /\ Len(token.str) % 4 # 0

\* the list a new session would load from the storage key
StoredList == IF storage.kind = "json" THEN storage.list ELSE <<>>

\* the persisted list is the in-memory list
InSync == storage.kind # "malformed" /\ StoredList = history

\* C15: after a startup load and after every append whose write succeeded the
\* persisted list is the in-memory list, entry by entry in the same order;
\* no other step of the session breaks that, ending the session keeps the
\* persisted list, and the next load yields exactly that list.
C15_HistorySurvives ==
  [][/\ (Mount /\ phase' = "running") =>
          (InSync' /\ history' = StoredList /\ storage' = storage)
     /\ (GenerateStep /\ uncaught' = "none") => InSync'
     /\ (InSync /\ phase = "running" /\ phase' = "running" /\ ~GenerateStep) => InSync'
     /\ Reload => storage' = storage]_vars

\* a session loaded four saved entries and appended two of its own: both
\* writes succeeded and the persisted list is the five entries held
C15_Witness ==
  /\ phase = "running"
  /\ toast = GeneratedToast
  /\ Len(history) = 5
  /\ history[1].id = 1
  /\ history[2].id = 0
  /\ history[5].id < 0
  /\ storage = JSONstringify(history)

C17_HistoryFrame ==
  [][/\ ~GenerateStep => storage' = storage
     /\ (phase = "running" /\ phase' = "running" /\ ~GenerateStep) => history' = history
     /\ GenerateStep =>
          /\ Len(history') = Min(Len(history) + 1, 5)
          /\ \A i \in 1..Len(history) : i + 1 <= 5 => history'[i + 1] = history[i]
          /\ storage' \in {storage, JSONstringify(history')}]_vars

\* after an append to four saved entries the router rejected '!!': the five
\* entries and the stored list are as the append left them
C17_Witness ==
  /\ phase = "running"
  /\ toast = InvalidLinkToast
  /\ mode = "create"
  /\ pending = 1
  /\ generatedLink # <<>>
  /\ Len(history) = 5
  /\ history[1].id = 0
  /\ history[5] = SavedEntry(4)
  /\ storage = JSONstringify(history)

\* C18: whenever a step leaves the page in View mode with no hashchange
\* event queued, the text shown is decodeText of the fragment; and a step
\* taken in View mode that changes the text, the generated link or the
\* history is the hashchange listener or resetApp.
C18_ViewReadOnly ==
  [][/\ (phase' = "running" /\ mode' = "view" /\ pending' = 0) =>
          decodeText(hash') = Str(text')
     /\ (/\ phase = "running" /\ mode = "view" /\ phase' = "running"
         /\ (text' # text \/ generatedLink' # generatedLink \/ history' # history)) =>
          (HashChange \/ resetApp)]_vars

\* a link generated in Create mode, then the link of 'A' opened: View mode
\* showing 'A', with the generated link and the history still held
C18_Witness ==
  /\ phase = "running"
  /\ mode = "view"
  /\ hash = <<81, 81>>
  /\ text = <<65>>
  /\ pending = 0
  /\ generatedLink # <<>>
  /\ showQR
  /\ history[1].id = 0

=============================================================================
